---------------------------- MODULE Spec2Model ----------------------------
(***************************************************************************)
(* Model of the telemetry-gokit-log Logger (level-gated emission, derived  *)
(* loggers sharing or decoupling the level cell) and of its ScopeManager   *)
(* (the registry of named scoped loggers).                                 *)
(*                                                                         *)
(* The heap is explicit: `cells' holds the int32 level cells that the      *)
(* `lvl *int32' fields point to, `loggers' holds the Logger objects, and a *)
(* pointer is an index into one of them.  `last' is the call most recently *)
(* made: its receiver, its arguments, what it returned, and what it handed *)
(* to the sink and to the metric hook.  Each Logger also carries `by', the *)
(* call that built it (operation, receiver, scope name): bookkeeping that  *)
(* the properties read and no operation does.                              *)
(*                                                                         *)
(* `outputLevels' is the manager's configuration string.  `tally' counts,  *)
(* per logger, the emission calls made on it and the metric hook           *)
(* invocations they caused.  `threads' and `mtx' are the goroutines that   *)
(* call the manager concurrently, each with the operation it is in and its *)
(* position in it, and the manager's mutex.                                *)
(***************************************************************************)
EXTENDS Integers, Sequences, FiniteSets, TLC

(***************************************************************************)
(* Levels: the constants of the imported telemetry/level package.          *)
(***************************************************************************)
None == 0
Error == 1
Info == 5
Debug == 10

Levels == {None, Error, Info, Debug}

\* Bounds of the model.
MaxLoggers == 3

(***************************************************************************)
(* Values of type interface{}: the model keeps the dynamic type next to    *)
(* the value, since With tests it.                                         *)
(***************************************************************************)
S(x) == [kind |-> "string", val |-> x]
I(x) == [kind |-> "int", val |-> x]
E(x) == [kind |-> "error", val |-> x]

\* Key/value arguments given to With.
WithInputs ==
    { <<S("key")>>, <<S("key"), S("val")>>, <<I("1"), S("val")>>, <<>> }

\* The same, and a list whose first pair has no string key and whose last
\* key has no value.
FieldInputs == WithInputs \cup { <<I("1"), S("val"), S("key")>> }

\* Key/value arguments given at the call site of Debug, Info and Error.
CallInputs == { <<>>, <<S("a"), I("1")>> }

\* Contexts: a context is modelled by the key/value pairs it carries.
Background == <<>>
Contexts == { Background, <<S("ctx"), S("val")>> }

\* Metric hooks: 0 is nil.
NoMetric == 0
Metrics == {1}

\* The go-kit loggers a root Logger may be built around: one whose Log
\* succeeds and one whose Log returns an error.
Sinks == {1, 2}
FailingSink == 2
\* The root logger: the one New built and NewScopeManager was given.
RootId == 1

(***************************************************************************)
(* Scope names are sequences of characters.                                *)
(***************************************************************************)
Cutset == {"\r", "\n", "\t", " "}

RECURSIVE TrimLeft(_)
TrimLeft(s) ==
    IF s # <<>> /\ Head(s) \in Cutset THEN TrimLeft(Tail(s)) ELSE s

RECURSIVE TrimRight(_)
TrimRight(s) ==
    IF s # <<>> /\ s[Len(s)] \in Cutset
    THEN TrimRight(SubSeq(s, 1, Len(s) - 1))
    ELSE s

\* strings.Trim(name, "\r\n\t ")
Trim(s) == TrimRight(TrimLeft(s))

LowerChar(c) ==
    CASE c = "A" -> "a"
      [] c = "B" -> "b"
      [] c = "D" -> "d"
      [] c = "I" -> "i"
      [] c = "P" -> "p"
      [] OTHER -> c

\* strings.ToLower
ToLower(s) == [i \in 1 .. Len(s) |-> LowerChar(s[i])]

\* strings.ToLower(strings.Trim(name, "\r\n\t "))
Normalize(name) == ToLower(Trim(name))

\* The names callers pass: "db", " DB\n", "\tApi ".
NameInputs ==
    { <<"d", "b">>, <<" ", "D", "B", "\n">>, <<"\t", "A", "p", "i", " ">> }

Descriptions == {"database logs", "other"}

VARIABLES loggers, cells, registry, last, outputLevels, tally, threads, mtx

vars == <<loggers, cells, registry, last, outputLevels, tally, threads, mtx>>

\* What the calls of one caller on loggers and manager leave alone.
rest == <<outputLevels, tally, threads, mtx>>

\* A call made by one caller while no other call is in progress.
Alone(A) == A /\ UNCHANGED rest

\* The goroutines calling the manager concurrently.
Threads == {"t1", "t2"}

\* sync.Mutex: its zero value is unlocked; locked, it is held by a goroutine.
Unlocked == "unlocked"

\* A goroutine that is in no call.
Idle ==
    [pc |-> "idle", op |-> "none", name |-> <<>>, desc |-> "", lvl |-> 0,
     sc |-> 0, seed |-> 0, todo |-> {}, seen |-> {}, ok |-> TRUE, ret |-> 0,
     calls |-> 0]

\* The tally of a logger no call was made on.
NoCalls == [calls |-> 0, debugs |-> 0, hooks |-> 0]

\* levelToString[Level(atomic.LoadInt32(logger.lvl))]
LevelToString(lvl) ==
    CASE lvl = None -> <<"n", "o", "n", "e">>
      [] lvl = Error -> <<"e", "r", "r", "o", "r">>
      [] lvl = Info -> <<"i", "n", "f", "o">>
      [] lvl = Debug -> <<"d", "e", "b", "u", "g">>

LoggerIds == 1 .. Len(loggers)

\* atomic.LoadInt32(l.lvl)
LoadLevel(l) == cells[loggers[l].lvl]

\* How a Logger was built: by operation op on receiver l (0: none), for the
\* scope name (Register only).
Built(op, l, name) == [op |-> op, l |-> l, name |-> name, kv |-> <<>>]

NoCall ==
    [op |-> "none", l |-> 0, name |-> <<>>, desc |-> "", kv |-> <<>>,
     lvl |-> 0, ret |-> 0, ok |-> TRUE, logged |-> <<>>, recorded |-> <<>>,
     errs |-> <<>>]

Call(op, l) == [NoCall EXCEPT !.op = op, !.l = l]

(***************************************************************************)
(* New(sink): level Info in a fresh cell, background context, no fields,   *)
(* no metric.  NewScopeManager(logger): an empty registry around it.       *)
(***************************************************************************)
InitSink(sink) ==
    /\ cells = <<Info>>
    /\ loggers = << [ctx |-> Background, args |-> <<>>, metric |-> NoMetric,
                     lvl |-> 1, logger |-> sink,
                     by |-> Built("New", 0, <<>>)] >>
    /\ registry = {}
    /\ last = NoCall
    /\ outputLevels = LevelToString(Info)
    /\ tally = [l \in 1 .. MaxLoggers |-> NoCalls]
    /\ threads = [t \in Threads |-> Idle]
    /\ mtx = Unlocked

Init == InitSink(1)

\* A scope manager around a root logger of either sink.
InitScopes == \E sink \in Sinks : InitSink(sink)

(***************************************************************************)
(* Logger: emission.  The methods Debug, Info and Error are LogDebug,      *)
(* LogInfo and LogError here, their names being taken by the levels.       *)
(***************************************************************************)
\* telemetry.KeyValuesFromContext(ctx)
KeyValuesFromContext(ctx) == ctx

\* LineArgs as it would be had the call-site pairs come before the fields.
LineArgsPairsFirst(l, msg, lvlName, keyValues) ==
    <<S("msg"), msg, S("level"), S(lvlName)>>
        \o KeyValuesFromContext(loggers[l].ctx)
        \o keyValues
        \o loggers[l].args

\* The argument list Debug and Info hand to the sink.
LineArgs(l, msg, lvlName, keyValues) ==
    <<S("msg"), msg, S("level"), S(lvlName)>>
        \o KeyValuesFromContext(loggers[l].ctx)
        \o loggers[l].args
        \o keyValues

\* The argument list Error hands to the sink.
ErrorArgs(l, msg, err, keyValues) ==
    <<S("msg"), msg, S("level"), S("error"), S("error"), err>>
        \o KeyValuesFromContext(loggers[l].ctx)
        \o loggers[l].args
        \o keyValues

\* _ = l.logger.Log(args...): the error of a failing sink is discarded.
Log(l, args) ==
    << [sink |-> loggers[l].logger, args |-> args,
        failed |-> loggers[l].logger = FailingSink] >>

\* RecordMetric as it would be had the level gate come before it.
RecordMetricGated(l) ==
    IF loggers[l].metric # NoMetric /\ LoadLevel(l) >= Info
    THEN << [metric |-> loggers[l].metric, ctx |-> loggers[l].ctx, n |-> 1] >>
    ELSE <<>>

\* if l.metric != nil { l.metric.RecordContext(l.ctx, 1) }
RecordMetric(l) ==
    IF loggers[l].metric # NoMetric
    THEN << [metric |-> loggers[l].metric, ctx |-> loggers[l].ctx, n |-> 1] >>
    ELSE <<>>

\* The level gates of the three emission calls.
DebugGate(l) == LoadLevel(l) >= Debug

InfoGate(l) == LoadLevel(l) >= Info

ErrorGate(l) == LoadLevel(l) >= Error

LogDebug(l, msg, keyValues) ==
    /\ last' = [Call("Debug", l) EXCEPT
                   !.kv = keyValues,
                   !.logged = IF DebugGate(l)
                              THEN Log(l, LineArgs(l, msg, "debug", keyValues))
                              ELSE <<>>]
    /\ UNCHANGED <<loggers, cells, registry>>

LogInfo(l, msg, keyValues) ==
    /\ last' = [Call("Info", l) EXCEPT
                   !.kv = keyValues,
                   !.recorded = RecordMetric(l),
                   !.logged = IF InfoGate(l)
                              THEN Log(l, LineArgs(l, msg, "info", keyValues))
                              ELSE <<>>]
    /\ UNCHANGED <<loggers, cells, registry>>

LogError(l, msg, err, keyValues) ==
    /\ last' = [Call("Error", l) EXCEPT
                   !.kv = keyValues,
                   !.recorded = RecordMetric(l),
                   !.logged = IF ErrorGate(l)
                              THEN Log(l, ErrorArgs(l, msg, err, keyValues))
                              ELSE <<>>]
    /\ UNCHANGED <<loggers, cells, registry>>

(***************************************************************************)
(* Logger: derivation.  Every derivation allocates a Logger; only New      *)
(* allocates a level cell.                                                 *)
(***************************************************************************)
\* Paired as it would be had it dropped a key that has no value.
PairedDropping(keyValues) ==
    IF Len(keyValues) % 2 # 0 THEN SubSeq(keyValues, 1, Len(keyValues) - 1)
    ELSE keyValues

\* keyValues with "(MISSING)" appended when its length is odd.
Paired(keyValues) ==
    IF Len(keyValues) % 2 # 0 THEN Append(keyValues, S("(MISSING)"))
    ELSE keyValues

\* The pairs of kv, from pair i on, whose key is a string.
RECURSIVE StringKeyed(_, _)
StringKeyed(kv, i) ==
    IF i > Len(kv) THEN <<>>
    ELSE (IF kv[i].kind = "string" THEN <<kv[i], kv[i + 1]>> ELSE <<>>)
             \o StringKeyed(kv, i + 2)

\* The level cell a With, Context or Metric logger gets: the receiver's.
SharedCell(l) == loggers[l].lvl

With(l, keyValues) ==
    IF Len(keyValues) = 0
    THEN /\ last' = [Call("With", l) EXCEPT !.ret = l]
         /\ UNCHANGED <<loggers, cells, registry>>
    ELSE /\ Len(loggers) < MaxLoggers
         /\ loggers' = Append(loggers,
                [ctx |-> loggers[l].ctx,
                 args |-> loggers[l].args \o StringKeyed(Paired(keyValues), 1),
                 metric |-> loggers[l].metric,
                 lvl |-> SharedCell(l),
                 logger |-> loggers[l].logger,
                 by |-> [Built("With", l, <<>>) EXCEPT !.kv = keyValues]])
         /\ last' = [Call("With", l) EXCEPT
                        !.kv = keyValues, !.ret = Len(loggers) + 1]
         /\ UNCHANGED <<cells, registry>>

\* Context as it would be had it copied the level instead of the pointer.
ContextDecoupled(l, ctx) ==
    /\ Len(loggers) < MaxLoggers
    /\ cells' = Append(cells, LoadLevel(l))
    /\ loggers' = Append(loggers,
           [ctx |-> ctx,
            args |-> loggers[l].args,
            metric |-> loggers[l].metric,
            lvl |-> Len(cells) + 1,
            logger |-> loggers[l].logger,
            by |-> Built("Context", l, <<>>)])
    /\ last' = [Call("Context", l) EXCEPT !.ret = Len(loggers) + 1]
    /\ UNCHANGED registry

Context(l, ctx) ==
    /\ Len(loggers) < MaxLoggers
    /\ loggers' = Append(loggers,
           [ctx |-> ctx,
            args |-> loggers[l].args,
            metric |-> loggers[l].metric,
            lvl |-> SharedCell(l),
            logger |-> loggers[l].logger,
            by |-> Built("Context", l, <<>>)])
    /\ last' = [Call("Context", l) EXCEPT !.ret = Len(loggers) + 1]
    /\ UNCHANGED <<cells, registry>>

Metric(l, m) ==
    /\ Len(loggers) < MaxLoggers
    /\ loggers' = Append(loggers,
           [ctx |-> loggers[l].ctx,
            args |-> loggers[l].args,
            metric |-> m,
            lvl |-> SharedCell(l),
            logger |-> loggers[l].logger,
            by |-> Built("Metric", l, <<>>)])
    /\ last' = [Call("Metric", l) EXCEPT !.ret = Len(loggers) + 1]
    /\ UNCHANGED <<cells, registry>>

\* The value New seeds the decoupled cell with.
NewSeed(l) == LoadLevel(l)

\* New as it would be had it kept the receiver's level pointer.
NewShared(l) ==
    /\ Len(loggers) < MaxLoggers
    /\ loggers' = Append(loggers,
           [ctx |-> loggers[l].ctx,
            args |-> loggers[l].args,
            metric |-> loggers[l].metric,
            lvl |-> loggers[l].lvl,
            logger |-> loggers[l].logger,
            by |-> Built("New", l, <<>>)])
    /\ last' = [Call("New", l) EXCEPT !.ret = Len(loggers) + 1]
    /\ UNCHANGED <<cells, registry>>

New(l) ==
    /\ Len(loggers) < MaxLoggers
    /\ cells' = Append(cells, NewSeed(l))
    /\ loggers' = Append(loggers,
           [ctx |-> loggers[l].ctx,
            args |-> loggers[l].args,
            metric |-> loggers[l].metric,
            lvl |-> Len(cells) + 1,
            logger |-> loggers[l].logger,
            by |-> Built("New", l, <<>>)])
    /\ last' = [Call("New", l) EXCEPT !.ret = Len(loggers) + 1]
    /\ UNCHANGED registry

(***************************************************************************)
(* Logger: level control.                                                  *)
(***************************************************************************)
\* Clamp as it would be had it compared with <= where the code has <.
ClampInclusive(lvl) ==
    IF lvl <= Info THEN Error
    ELSE IF lvl <= Debug THEN Info
    ELSE Debug

\* The value SetLevel stores for the value it is given.
Clamp(lvl) ==
    IF lvl < Info THEN Error
    ELSE IF lvl < Debug THEN Info
    ELSE Debug

\* cells after l.SetLevel(lvl) on the cells cs.
StoreLevel(cs, l, lvl) == [cs EXCEPT ![loggers[l].lvl] = Clamp(lvl)]

SetLevel(l, lvl) ==
    /\ cells' = StoreLevel(cells, l, lvl)
    /\ last' = [Call("SetLevel", l) EXCEPT !.lvl = lvl]
    /\ UNCHANGED <<loggers, registry>>

Level(l) ==
    /\ last' = [Call("Level", l) EXCEPT !.ret = LoadLevel(l)]
    /\ UNCHANGED <<loggers, cells, registry>>

(***************************************************************************)
(* ScopeManager.  registry is the map name -> *scopedLogger, held as the   *)
(* set of its entries; s.logger is the logger RootId.                      *)
(***************************************************************************)
\* _, has := s.registry[name]
Has(name) == \E sc \in registry : sc.name = name

\* s.registry[name]
Lookup(name) == CHOOSE sc \in registry : sc.name = name

\* A seed that ignores the root's current level.
RegisterSeedInfo == Info

\* The level Register seeds a new scope's cell with.
RegisterSeed == LoadLevel(RootId)

\* The entry Register stores for a name that is not registered.
NewScoped(name, description) ==
    [name |-> name, description |-> description, logger |-> Len(loggers) + 1]

\* A second registration that overwrites the stored description.
ReRegisterUpdating(name, description) ==
    { IF sc.name = name THEN [sc EXCEPT !.description = description] ELSE sc :
        sc \in registry }

\* The registry after Register found name registered already.
ReRegister(name, description) == registry

\* Register as it would be had the scope been given the root's level pointer.
RegisterSharing(rawName, description) ==
    LET name == Normalize(rawName) IN
    IF Has(name)
    THEN /\ last' = [Call("Register", 0) EXCEPT
                        !.name = rawName, !.desc = description,
                        !.ret = Lookup(name).logger]
         /\ UNCHANGED <<loggers, cells, registry>>
    ELSE /\ Len(loggers) < MaxLoggers
         /\ loggers' = Append(loggers,
                [ctx |-> Background, args |-> <<>>, metric |-> NoMetric,
                 lvl |-> loggers[RootId].lvl,
                 logger |-> loggers[RootId].logger,
                 by |-> Built("Register", 0, name)])
         /\ registry' = registry \cup {NewScoped(name, description)}
         /\ last' = [Call("Register", 0) EXCEPT
                        !.name = rawName, !.desc = description,
                        !.ret = Len(loggers) + 1]
         /\ UNCHANGED cells

\* Register as it would be had a name registered before been given back the
\* level cell of its earlier logger.
RegisterReviving(rawName, description) ==
    LET name == Normalize(rawName)
        earlier == { o \in LoggerIds : /\ loggers[o].by.op = "Register"
                                        /\ loggers[o].by.name = name }
    IN
    IF Has(name)
    THEN /\ last' = [Call("Register", 0) EXCEPT
                        !.name = rawName, !.desc = description,
                        !.ret = Lookup(name).logger]
         /\ UNCHANGED <<loggers, cells, registry>>
    ELSE /\ Len(loggers) < MaxLoggers
         /\ cells' = IF earlier = {} THEN Append(cells, RegisterSeed)
                     ELSE cells
         /\ loggers' = Append(loggers,
                [ctx |-> Background, args |-> <<>>, metric |-> NoMetric,
                 lvl |-> IF earlier = {} THEN Len(cells) + 1
                         ELSE loggers[CHOOSE o \in earlier : TRUE].lvl,
                 logger |-> loggers[RootId].logger,
                 by |-> Built("Register", 0, name)])
         /\ registry' = registry \cup {NewScoped(name, description)}
         /\ last' = [Call("Register", 0) EXCEPT
                        !.name = rawName, !.desc = description,
                        !.ret = Len(loggers) + 1]

Register(rawName, description) ==
    LET name == Normalize(rawName) IN
    IF Has(name)
    THEN /\ last' = [Call("Register", 0) EXCEPT
                        !.name = rawName, !.desc = description,
                        !.ret = Lookup(name).logger]
         /\ registry' = ReRegister(name, description)
         /\ UNCHANGED <<loggers, cells>>
    ELSE /\ Len(loggers) < MaxLoggers
         /\ cells' = Append(cells, RegisterSeed)
         /\ loggers' = Append(loggers,
                [ctx |-> Background, args |-> <<>>, metric |-> NoMetric,
                 lvl |-> Len(cells) + 1, logger |-> loggers[RootId].logger,
                 by |-> Built("Register", 0, name)])
         /\ registry' = registry \cup {NewScoped(name, description)}
         /\ last' = [Call("Register", 0) EXCEPT
                        !.name = rawName, !.desc = description,
                        !.ret = Len(loggers) + 1]

\* A delete that leaves the entry in place.
DeleteNothing(name) == registry

\* The registry after delete(s.registry, name).
Delete(name) == { sc \in registry : sc.name # name }

Deregister(rawName) ==
    LET name == Normalize(rawName) IN
    IF ~Has(name)
    THEN /\ last' = [Call("Deregister", 0) EXCEPT
                        !.name = rawName, !.ok = FALSE]
         /\ UNCHANGED <<loggers, cells, registry>>
    ELSE /\ registry' = Delete(name)
         /\ last' = [Call("Deregister", 0) EXCEPT
                        !.name = rawName, !.ok = TRUE]
         /\ UNCHANGED <<loggers, cells>>

\* cells after sg.logger.SetLevel(lvl) for every entry sg of scs.
RECURSIVE StoreAll(_, _, _)
StoreAll(cs, scs, lvl) ==
    IF scs = {} THEN cs
    ELSE LET sg == CHOOSE sc \in scs : TRUE
         IN StoreAll(StoreLevel(cs, sg.logger, lvl), scs \ {sg}, lvl)

\* The entries SetDefaultOutputLevel walks.
Walked == registry

SetDefaultOutputLevel(lvl) ==
    /\ cells' = StoreAll(StoreLevel(cells, RootId, lvl), Walked, lvl)
    /\ last' = [Call("SetDefaultOutputLevel", 0) EXCEPT !.lvl = lvl]
    /\ UNCHANGED <<loggers, registry>>

\* The logger SetScopeOutputLevel sets the level of.
ScopeTarget(name) == Lookup(name).logger

\* SetScopeOutputLevel as it would be had the lookup failure gone unreported.
SetScopeOutputLevelNoError(rawName, lvl) ==
    LET name == Normalize(rawName) IN
    /\ cells' = IF Has(name) THEN StoreLevel(cells, ScopeTarget(name), lvl)
                ELSE cells
    /\ last' = [Call("SetScopeOutputLevel", 0) EXCEPT
                   !.name = rawName, !.lvl = lvl, !.ok = TRUE]
    /\ UNCHANGED <<loggers, registry>>

SetScopeOutputLevel(rawName, lvl) ==
    LET name == Normalize(rawName) IN
    IF ~Has(name)
    THEN /\ last' = [Call("SetScopeOutputLevel", 0) EXCEPT
                        !.name = rawName, !.lvl = lvl, !.ok = FALSE]
         /\ UNCHANGED <<loggers, cells, registry>>
    ELSE /\ cells' = StoreLevel(cells, ScopeTarget(name), lvl)
         /\ last' = [Call("SetScopeOutputLevel", 0) EXCEPT
                        !.name = rawName, !.lvl = lvl, !.ok = TRUE]
         /\ UNCHANGED <<loggers, registry>>

GetDefaultOutputLevel ==
    /\ last' = [Call("GetDefaultOutputLevel", 0) EXCEPT
                   !.ret = LoadLevel(RootId)]
    /\ UNCHANGED <<loggers, cells, registry>>

GetOutputLevel(rawName) ==
    LET name == Normalize(rawName) IN
    /\ last' = IF ~Has(name)
               THEN [Call("GetOutputLevel", 0) EXCEPT
                        !.name = rawName, !.ret = None, !.ok = FALSE]
               ELSE [Call("GetOutputLevel", 0) EXCEPT
                        !.name = rawName,
                        !.ret = LoadLevel(Lookup(name).logger)]
    /\ UNCHANGED <<loggers, cells, registry>>

(***************************************************************************)
(* Specifications.                                                         *)
(***************************************************************************)
Msg == S("hello")
Err == E("error")

\* A logger and the loggers derived from it.
NextLogger ==
    \/ \E l \in LoggerIds, kv \in CallInputs : Alone(LogDebug(l, Msg, kv))
    \/ \E l \in LoggerIds, kv \in CallInputs : Alone(LogInfo(l, Msg, kv))
    \/ \E l \in LoggerIds, kv \in CallInputs : Alone(LogError(l, Msg, Err, kv))
    \/ \E l \in LoggerIds, kv \in WithInputs : Alone(With(l, kv))
    \/ \E l \in LoggerIds, ctx \in Contexts : Alone(Context(l, ctx))
    \/ \E l \in LoggerIds, m \in Metrics : Alone(Metric(l, m))
    \/ \E l \in LoggerIds : Alone(New(l))
    \/ \E l \in LoggerIds, lvl \in Levels : Alone(SetLevel(l, lvl))
    \/ \E l \in LoggerIds : Alone(Level(l))

\* The scope manager and the loggers it hands out.
NextScopes ==
    \/ \E n \in NameInputs, d \in Descriptions : Alone(Register(n, d))
    \/ \E n \in NameInputs : Alone(Deregister(n))
    \/ \E lvl \in Levels : Alone(SetDefaultOutputLevel(lvl))
    \/ \E n \in NameInputs, lvl \in Levels : Alone(SetScopeOutputLevel(n, lvl))
    \/ Alone(GetDefaultOutputLevel)
    \/ \E n \in NameInputs : Alone(GetOutputLevel(n))
    \/ \E l \in LoggerIds, lvl \in Levels : Alone(SetLevel(l, lvl))
    \/ \E l \in LoggerIds : Alone(LogDebug(l, Msg, <<>>))
    \/ \E l \in LoggerIds : Alone(LogInfo(l, Msg, <<>>))
    \/ \E l \in LoggerIds : Alone(LogError(l, Msg, Err, <<>>))

Next == NextLogger \/ NextScopes

Spec == Init /\ [][Next]_vars

SpecLogger == Init /\ [][NextLogger]_vars

SpecScopes == InitScopes /\ [][NextScopes]_vars

(***************************************************************************)
(* Vocabulary of the properties.                                           *)
(***************************************************************************)
\* The level of the message an emission call logs.
MsgLevel(op) ==
    CASE op = "Error" -> Error
      [] op = "Info" -> Info
      [] op = "Debug" -> Debug

EmitOps == {"Error", "Info", "Debug"}

\* The derivations that are to share the receiver's level cell.
ShareOps == {"With", "Context", "Metric"}

\* The loggers p such that d was obtained from p by a chain of zero or more
\* With, Context and Metric derivations.
RECURSIVE ShareChain(_)
ShareChain(d) ==
    IF loggers[d].by.op \in ShareOps
    THEN {d} \cup ShareChain(loggers[d].by.l)
    ELSE {d}

\* The level of logger l after the step.
LoadLevelAfter(l) == cells'[loggers'[l].lvl]

\* The loggers of the registered scopes.
ScopeLoggers == { sc.logger : sc \in registry }

\* The loggers Register handed out whose entry has since been deleted.
Orphans ==
    { l \in LoggerIds : loggers[l].by.op = "Register" /\ l \notin ScopeLoggers }

\* The cells call c configured, c being the level-setting call last made.
ConfiguredCells(c) ==
    CASE c.op = "SetLevel" -> { loggers[c.l].lvl }
      [] c.op = "SetScopeOutputLevel" /\ c.ok ->
            { loggers[Lookup(Normalize(c.name)).logger].lvl }
      [] c.op = "SetDefaultOutputLevel" ->
            { loggers[l].lvl : l \in {RootId} \cup ScopeLoggers }
      [] OTHER -> {}

(***************************************************************************)
(* C1.  A logger configured at level L2 (by SetLevel, SetScopeOutputLevel  *)
(* or SetDefaultOutputLevel) does not invoke the sink on a following       *)
(* Error/Info/Debug call whose level L1 is above L2; configured at None it *)
(* emits nothing.                                                          *)
(***************************************************************************)
C1_SuppressedAboveConfigured ==
    [][ ( /\ last'.op \in EmitOps
          /\ loggers[last'.l].lvl \in ConfiguredCells(last)
          /\ last.lvl \in Levels
          /\ MsgLevel(last'.op) > last.lvl )
        => last'.logged = <<>> ]_vars

(***************************************************************************)
(* C2.  A logger and every logger obtained from it by a chain of With      *)
(* (with at least one pair), Context and Metric derivations report the same*)
(* level in every reachable state, whichever of them SetLevel was called   *)
(* on.                                                                     *)
(***************************************************************************)
C2_SharedLevelCell ==
    \A d \in LoggerIds : \A p \in ShareChain(d) : LoadLevel(p) = LoadLevel(d)

\* SetLevel(Debug) was just called on a logger two sharing derivations away
\* from its origin, one of them a With, and the origin reports Debug.
C2_Witness ==
    \E d \in LoggerIds :
        /\ loggers[d].by.op \in ShareOps
        /\ loggers[loggers[d].by.l].by.op \in ShareOps
        /\ "With" \in {loggers[d].by.op, loggers[loggers[d].by.l].by.op}
        /\ loggers[d].by.op # loggers[loggers[d].by.l].by.op
        /\ last.op = "SetLevel" /\ last.l = d /\ last.lvl = Debug
        /\ LoadLevel(loggers[loggers[d].by.l].by.l) = Debug

(***************************************************************************)
(* C3.  New() gives the new logger a level cell no existing logger has,    *)
(* holding the receiver's level at that moment; from then on SetLevel on   *)
(* the new logger leaves the level of the receiver and of every logger     *)
(* sharing the receiver's cell unchanged, and SetLevel on the receiver     *)
(* leaves the new logger's level unchanged.                                *)
(***************************************************************************)
C3_NewDecouples ==
    [][ /\ last'.op = "New" =>
              /\ loggers'[last'.ret].lvl \notin
                     { loggers[x].lvl : x \in LoggerIds }
              /\ LoadLevelAfter(last'.ret) = LoadLevel(last'.l)
        /\ \A c \in LoggerIds :
              (loggers[c].by.op = "New" /\ loggers[c].by.l # 0) =>
                  LET p == loggers[c].by.l IN
                  /\ (last'.op = "SetLevel" /\ last'.l = c) =>
                         \A q \in LoggerIds :
                             loggers[q].lvl = loggers[p].lvl =>
                                 LoadLevelAfter(q) = LoadLevel(q)
                  /\ (last'.op = "SetLevel" /\ last'.l = p) =>
                         LoadLevelAfter(c) = LoadLevel(c)
      ]_vars

\* SetLevel was just called on a logger New() returned, and its level now
\* differs from its receiver's.
C3_Witness ==
    \E c \in LoggerIds :
        /\ loggers[c].by.op = "New" /\ loggers[c].by.l # 0
        /\ last.op = "SetLevel" /\ last.l = c
        /\ LoadLevel(c) # LoadLevel(loggers[c].by.l)

(***************************************************************************)
(* C4.  Register of a name whose normalized form is registered returns the *)
(* logger stored when the entry was created and changes nothing: no level, *)
(* no description, no registered name.  The entry holds the logger the     *)
(* creating Register returned, and only Deregister removes or alters an    *)
(* entry; two Registers in a row of names equal after normalization return *)
(* the same logger.                                                        *)
(***************************************************************************)
C4_RegisterIdempotent ==
    [][ /\ (last'.op = "Register" /\ Has(Normalize(last'.name))) =>
              /\ last'.ret = Lookup(Normalize(last'.name)).logger
              /\ registry' = registry
              /\ cells' = cells
              /\ loggers' = loggers
        /\ (last'.op = "Register" /\ ~Has(Normalize(last'.name))) =>
              \E sc \in registry' :
                  sc.name = Normalize(last'.name) /\ sc.logger = last'.ret
        /\ last'.op # "Deregister" => registry \subseteq registry'
        /\ ( /\ last.op = "Register"
             /\ last'.op = "Register"
             /\ Normalize(last.name) = Normalize(last'.name) ) =>
              last'.ret = last.ret
      ]_vars

\* Register was just called with a name that is not in normalized form, and
\* the logger it returned has a level other than the root's: the scope was
\* registered before and its level set since.
C4_Witness ==
    /\ last.op = "Register"
    /\ last.name # Normalize(last.name)
    /\ LoadLevel(last.ret) # LoadLevel(RootId)
    /\ Cardinality(registry) = 2

(***************************************************************************)
(* C5.  After SetDefaultOutputLevel(L), for every L of None, Error, Info,  *)
(* Debug, GetDefaultOutputLevel() returns L and GetOutputLevel(n) returns  *)
(* L for every registered scope n.                                         *)
(***************************************************************************)
C5_DefaultBroadcastRoundTrip ==
    [][ last.op = "SetDefaultOutputLevel" =>
           /\ last'.op = "GetDefaultOutputLevel" => last'.ret = last.lvl
           /\ (last'.op = "GetOutputLevel" /\ last'.ok) => last'.ret = last.lvl
      ]_vars

(***************************************************************************)
(* C6.  No two registered scopes, and no scope and the root, share a level *)
(* cell; SetScopeOutputLevel(a, L), or SetLevel on the logger registered   *)
(* as a, leaves the level of every other registered scope and of the root  *)
(* unchanged.                                                              *)
(***************************************************************************)
NoSharedScopeCell ==
    \A a \in registry :
        /\ loggers[a.logger].lvl # loggers[RootId].lvl
        /\ \A b \in registry \ {a} :
               loggers[a.logger].lvl # loggers[b.logger].lvl

C6_ScopeIsolation ==
    [][ /\ NoSharedScopeCell
        /\ NoSharedScopeCell'
        /\ \A a \in registry :
              ( \/ ( /\ last'.op = "SetScopeOutputLevel"
                     /\ Normalize(last'.name) = a.name )
                \/ (last'.op = "SetLevel" /\ last'.l = a.logger) ) =>
                  /\ LoadLevelAfter(RootId) = LoadLevel(RootId)
                  /\ \A b \in registry \ {a} :
                         LoadLevelAfter(b.logger) = LoadLevel(b.logger)
      ]_vars

\* SetScopeOutputLevel(a, Debug) just succeeded while another scope stands at
\* Error and the root at Info.
C6_Witness ==
    /\ last.op = "SetScopeOutputLevel" /\ last.ok /\ last.lvl = Debug
    /\ LoadLevel(Lookup(Normalize(last.name)).logger) = Debug
    /\ LoadLevel(RootId) = Info
    /\ \E b \in registry :
           b.name # Normalize(last.name) /\ LoadLevel(b.logger) = Error

(***************************************************************************)
(* C7.  A Register that creates an entry returns a new logger whose level  *)
(* is the root logger's level at that moment and whose sink is the root    *)
(* logger's sink.                                                          *)
(***************************************************************************)
C7_RegisterSeedsFromRoot ==
    [][ (last'.op = "Register" /\ ~Has(Normalize(last'.name))) =>
           /\ last'.ret \notin LoggerIds
           /\ LoadLevelAfter(last'.ret) = LoadLevel(RootId)
           /\ loggers'[last'.ret].logger = loggers[RootId].logger
      ]_vars

\* Register just returned the newest logger, at the root's level Debug and
\* on the root's sink 2, for a name whose earlier logger is an orphan still
\* at the initial level.
C7_Witness ==
    /\ last.op = "Register" /\ last.ret = Len(loggers)
    /\ LoadLevel(RootId) = Debug /\ LoadLevel(last.ret) = Debug
    /\ loggers[RootId].logger = 2 /\ loggers[last.ret].logger = 2
    /\ \E o \in Orphans :
           loggers[o].by.name = Normalize(last.name) /\ LoadLevel(o) = Info

(***************************************************************************)
(* C8.  For a registered scope n and every L of None, Error, Info, Debug,  *)
(* SetScopeOutputLevel(n, L) returns no error and a GetOutputLevel(n) that *)
(* follows it returns L without error.                                     *)
(***************************************************************************)
C8_ScopeLevelRoundTrip ==
    [][ /\ (last'.op = "SetScopeOutputLevel" /\ Has(Normalize(last'.name)))
              => last'.ok
        /\ ( /\ last.op = "SetScopeOutputLevel" /\ last.ok
             /\ last'.op = "GetOutputLevel"
             /\ Normalize(last'.name) = Normalize(last.name) ) =>
              (last'.ok /\ last'.ret = last.lvl)
      ]_vars

(***************************************************************************)
(* C9.  SetScopeOutputLevel and GetOutputLevel of a name that is not       *)
(* registered fail, and leave the registry, every level and every logger   *)
(* as they were.                                                           *)
(***************************************************************************)
C9_UnknownScopeFails ==
    [][ ( /\ last'.op \in {"SetScopeOutputLevel", "GetOutputLevel"}
          /\ ~Has(Normalize(last'.name)) ) =>
           /\ ~last'.ok
           /\ registry' = registry
           /\ cells' = cells
           /\ loggers' = loggers
      ]_vars

\* SetScopeOutputLevel just failed for a name that was registered and has
\* been deregistered, while another scope is registered.
C9_Witness ==
    /\ last.op = "SetScopeOutputLevel" /\ ~last.ok
    /\ ~Has(Normalize(last.name))
    /\ registry # {}
    /\ \E o \in Orphans : loggers[o].by.name = Normalize(last.name)

(***************************************************************************)
(* C10.  Deregister of a name that is not registered returns false and     *)
(* changes nothing; of a registered name it returns true and removes that  *)
(* entry and nothing else, no level included.  The logger of a removed     *)
(* entry keeps its level through every later SetDefaultOutputLevel and     *)
(* SetScopeOutputLevel, and its emission calls are gated by that level.    *)
(***************************************************************************)
C10_DeregisterOrphans ==
    [][ /\ (last'.op = "Deregister" /\ ~Has(Normalize(last'.name))) =>
              /\ ~last'.ok
              /\ registry' = registry
        /\ (last'.op = "Deregister" /\ Has(Normalize(last'.name))) =>
              /\ last'.ok
              /\ registry' = registry \ {Lookup(Normalize(last'.name))}
        /\ last'.op = "Deregister" => (cells' = cells /\ loggers' = loggers)
        /\ \A o \in Orphans :
              /\ last'.op \in {"SetDefaultOutputLevel", "SetScopeOutputLevel"}
                    => LoadLevelAfter(o) = LoadLevel(o)
              /\ (last'.op \in EmitOps /\ last'.l = o) =>
                    (last'.logged # <<>> <=> MsgLevel(last'.op) <= LoadLevel(o))
      ]_vars

\* SetDefaultOutputLevel(Error) was just called with a scope registered, and
\* the logger of a deregistered scope is still at Debug.
C10_Witness ==
    /\ last.op = "SetDefaultOutputLevel" /\ last.lvl = Error
    /\ registry # {}
    /\ LoadLevel(RootId) = Error
    /\ \E o \in Orphans : LoadLevel(o) = Debug

(***************************************************************************)
(* C11.  A Register of a name that was registered and deregistered creates *)
(* a new entry: a logger and a level cell that no earlier logger has, the  *)
(* level that of the root at that moment, the description the one given in *)
(* this call.  From then on a level change made to the new entry (through  *)
(* SetScopeOutputLevel or through its logger) leaves the orphaned logger   *)
(* of that name unchanged, and SetLevel on the orphan leaves the new       *)
(* entry's level unchanged.                                                *)
(***************************************************************************)
\* The orphaned loggers that were registered under name.
OrphansOf(name) == { o \in Orphans : loggers[o].by.name = name }

C11_ReRegisterIsFresh ==
    [][ /\ ( /\ last'.op = "Register"
             /\ ~Has(Normalize(last'.name))
             /\ OrphansOf(Normalize(last'.name)) # {} ) =>
              /\ last'.ret \notin LoggerIds
              /\ loggers'[last'.ret].lvl \notin
                     { loggers[x].lvl : x \in LoggerIds }
              /\ LoadLevelAfter(last'.ret) = LoadLevel(RootId)
              /\ [name |-> Normalize(last'.name), description |-> last'.desc,
                  logger |-> last'.ret] \in registry'
        /\ \A sc \in registry : \A o \in OrphansOf(sc.name) :
              /\ loggers[o].lvl # loggers[sc.logger].lvl
              /\ ( \/ ( /\ last'.op = "SetScopeOutputLevel"
                        /\ Normalize(last'.name) = sc.name )
                   \/ (last'.op = "SetLevel" /\ last'.l = sc.logger) ) =>
                     LoadLevelAfter(o) = LoadLevel(o)
              /\ (last'.op = "SetLevel" /\ last'.l = o) =>
                     LoadLevelAfter(sc.logger) = LoadLevel(sc.logger)
      ]_vars

\* SetScopeOutputLevel(n, Debug) just succeeded on an entry registered with
\* description "other" after an earlier entry of that name was removed; the
\* orphan stands at Error and the root at Info.
C11_Witness ==
    /\ last.op = "SetScopeOutputLevel" /\ last.ok /\ last.lvl = Debug
    /\ Has(Normalize(last.name))
    /\ Lookup(Normalize(last.name)).description = "other"
    /\ LoadLevel(Lookup(Normalize(last.name)).logger) = Debug
    /\ LoadLevel(RootId) = Info
    /\ \E o \in OrphansOf(Normalize(last.name)) : LoadLevel(o) = Error

(***************************************************************************)
(* Fields and emission: With, Context and the three emission calls on a    *)
(* root built around either sink.                                          *)
(***************************************************************************)
NextFields ==
    \/ \E l \in LoggerIds, kv \in FieldInputs : Alone(With(l, kv))
    \/ \E l \in LoggerIds, ctx \in Contexts : Alone(Context(l, ctx))
    \/ \E l \in LoggerIds, kv \in CallInputs : Alone(LogDebug(l, Msg, kv))
    \/ \E l \in LoggerIds, kv \in CallInputs : Alone(LogInfo(l, Msg, kv))
    \/ \E l \in LoggerIds, kv \in CallInputs : Alone(LogError(l, Msg, Err, kv))
    \/ \E l \in LoggerIds, lvl \in Levels : Alone(SetLevel(l, lvl))

SpecFields == InitScopes /\ [][NextFields]_vars

\* The j-th consecutive pair of kv; a final key without a value is paired
\* with "(MISSING)".
PairAt(kv, j) ==
    <<kv[2 * j - 1], IF 2 * j <= Len(kv) THEN kv[2 * j] ELSE S("(MISSING)")>>

\* The consecutive pairs of kv, from the j-th on, whose key is a string.
RECURSIVE KeptPairs(_, _)
KeptPairs(kv, j) ==
    IF j > (Len(kv) + 1) \div 2 THEN <<>>
    ELSE (IF PairAt(kv, j)[1].kind = "string" THEN PairAt(kv, j) ELSE <<>>)
             \o KeptPairs(kv, j + 1)

\* The pairs attached to logger l by the With calls on the chain of
\* derivations that produced it, in the order of those calls.
RECURSIVE Attached(_)
Attached(l) ==
    IF loggers[l].by.l = 0 THEN <<>>
    ELSE Attached(loggers[l].by.l)
             \o (IF loggers[l].by.op = "With"
                 THEN KeptPairs(loggers[l].by.kv, 1) ELSE <<>>)

\* What every line starts with.
Header(op) ==
    CASE op = "Error" -> <<S("msg"), Msg, S("level"), S("error"), S("error"), Err>>
      [] op = "Info" -> <<S("msg"), Msg, S("level"), S("info")>>
      [] op = "Debug" -> <<S("msg"), Msg, S("level"), S("debug")>>

\* C16: an Error, Info or Debug call that passes the level gate invokes the
\* logger's sink exactly once, with "msg", msg, "level", the level name, for
\* Error "error", err, then the pairs of the logger's context, then the
\* pairs attached by the successive With calls in their order, then the
\* call-site pairs, nothing reordered, deduplicated or dropped; the call
\* reports nothing to its caller and changes nothing, also when the sink
\* failed.
C16_EmissionOrder ==
    [][ ( /\ last'.op \in EmitOps
          /\ LoadLevel(last'.l) >= MsgLevel(last'.op) ) =>
            /\ Len(last'.logged) = 1
            /\ last'.logged[1].sink = loggers[last'.l].logger
            /\ last'.logged[1].args =
                   Header(last'.op) \o loggers[last'.l].ctx
                       \o Attached(last'.l) \o last'.kv
            /\ last'.ok /\ last'.ret = 0
            /\ UNCHANGED <<loggers, cells, registry>>
      ]_vars

\* Error("hello", err, "a", 1) on a logger two With calls away from a root
\* with a failing sink: the line carries key=val, key=(MISSING), a=1 in that
\* order.
C16_Witness ==
    /\ last.op = "Error"
    /\ Len(last.logged) = 1
    /\ last.logged[1].failed
    /\ last.logged[1].args =
           <<S("msg"), S("hello"), S("level"), S("error"), S("error"),
             E("error"), S("key"), S("val"), S("key"), S("(MISSING)"),
             S("a"), I("1")>>

\* C17: With never changes an existing logger or level cell; with no
\* arguments it returns the receiver; otherwise the logger it returns has the
\* receiver's fields followed by each consecutive pair of the arguments whose
\* key is a string, in order, a final key without a value paired with
\* "(MISSING)" and pairs with another kind of key dropped.  Every logger's
\* fields have even length and a string key in every pair.
C17_WithBuildsFields ==
    [][ /\ last'.op = "With" =>
            /\ \A x \in LoggerIds : loggers'[x] = loggers[x]
            /\ cells' = cells
            /\ IF Len(last'.kv) = 0
               THEN last'.ret = last'.l /\ loggers' = loggers
               ELSE /\ last'.ret \notin LoggerIds
                    /\ loggers'[last'.ret].args =
                           loggers[last'.l].args \o KeptPairs(last'.kv, 1)
        /\ \A x \in DOMAIN loggers' :
              /\ Len(loggers'[x].args) % 2 = 0
              /\ \A i \in 1 .. Len(loggers'[x].args) :
                    i % 2 = 1 => loggers'[x].args[i].kind = "string"
      ]_vars

\* With(1, "val", "key") on a logger that carries key=val: the first pair is
\* dropped and the result carries key=val key=(MISSING).
C17_Witness ==
    /\ last.op = "With"
    /\ last.kv = <<I("1"), S("val"), S("key")>>
    /\ last.ret # last.l
    /\ loggers[last.l].args = <<S("key"), S("val")>>
    /\ loggers[last.ret].args = <<S("key"), S("val"), S("key"), S("(MISSING)")>>

(***************************************************************************)
(* Level values: SetLevel given any integer of a range around the named    *)
(* levels, on root, derived, decoupled and scope loggers.                  *)
(***************************************************************************)
MaxLevelInput == 11

\* level.Value arguments: below None, the named levels, between and above.
LevelInputs == -1 .. MaxLevelInput

NextLevel ==
    \/ \E l \in LoggerIds, lvl \in LevelInputs : Alone(SetLevel(l, lvl))
    \/ \E l \in LoggerIds : Alone(Level(l))
    \/ \E l \in LoggerIds : Alone(New(l))
    \/ \E l \in LoggerIds, ctx \in Contexts : Alone(Context(l, ctx))
    \/ \E n \in NameInputs : Alone(Register(n, "database logs"))

SpecLevel == Init /\ [][NextLevel]_vars

\* The level SetLevel is to store for the value v.
Nearest(v) ==
    CASE v < Info -> Error
      [] Info <= v /\ v < Debug -> Info
      [] v >= Debug -> Debug

\* C18: SetLevel(v) stores Error when v < Info, Info when Info <= v < Debug
\* and Debug when v >= Debug, for every integer v from below None to above
\* Debug; Level() returns the stored value and stores nothing.  Every level
\* cell of every logger holds Error, Info or Debug in every state.
C18_SetLevelClamps ==
    [][ /\ last'.op = "SetLevel" =>
              LoadLevelAfter(last'.l) = Nearest(last'.lvl)
        /\ last'.op = "Level" =>
              last'.ret = LoadLevel(last'.l) /\ cells' = cells
        /\ \A l \in LoggerIds : LoadLevel(l) \in {Error, Info, Debug}
        /\ \A l \in DOMAIN loggers' : LoadLevelAfter(l) \in {Error, Info, Debug}
      ]_vars

\* Level() on a decoupled logger returns Error: the value stored by
\* SetLevel(-1) on it, while the root was set with a value between Info and
\* Debug and stands at Info.
C18_Witness ==
    /\ last.op = "Level" /\ last.ret = Error
    /\ loggers[last.l].by.op = "New" /\ loggers[last.l].by.l = RootId
    /\ LoadLevel(RootId) = Info
    /\ \E o \in LoggerIds : loggers[o].by.op = "Register"

(***************************************************************************)
(* Metric hooks: emission calls on loggers with and without a hook, at     *)
(* every level, each call counted on the logger it was made on.            *)
(***************************************************************************)
MaxCalls == 3

\* The emission calls made so far on the loggers 1 .. n.
RECURSIVE CallsMade(_)
CallsMade(n) ==
    IF n = 0 THEN 0
    ELSE tally[n].calls + tally[n].debugs + CallsMade(n - 1)

\* The emission call A, counted: an Info or Error call, or a Debug call, on
\* its receiver, and the RecordContext invocations it made.
Counted(A) ==
    /\ CallsMade(MaxLoggers) < MaxCalls
    /\ A
    /\ tally' = [tally EXCEPT ![last'.l] =
                    [calls |-> @.calls + (IF last'.op = "Debug" THEN 0 ELSE 1),
                     debugs |-> @.debugs + (IF last'.op = "Debug" THEN 1 ELSE 0),
                     hooks |-> @.hooks + Len(last'.recorded)]]
    /\ UNCHANGED <<outputLevels, threads, mtx>>

NextMetric ==
    \/ \E l \in LoggerIds : Counted(LogDebug(l, Msg, <<>>))
    \/ \E l \in LoggerIds : Counted(LogInfo(l, Msg, <<>>))
    \/ \E l \in LoggerIds : Counted(LogError(l, Msg, Err, <<>>))
    \/ \E l \in LoggerIds, m \in Metrics : Alone(Metric(l, m))
    \/ \E l \in LoggerIds, ctx \in Contexts \ {Background} :
          Alone(Context(l, ctx))
    \/ \E l \in LoggerIds, lvl \in Levels \ {None} : Alone(SetLevel(l, lvl))

SpecMetric == Init /\ [][NextMetric]_vars

\* C13: on a logger with a metric hook, the hook has been invoked as many
\* times as Info and Error were called on it, whatever the level was at each
\* call, each time with the logger's context and the amount 1; a Debug call
\* invokes no hook, and a logger without a hook has invoked none.
C13_HookPerInfoAndError ==
    /\ \A l \in LoggerIds :
          tally[l].hooks =
              IF loggers[l].metric # NoMetric THEN tally[l].calls ELSE 0
    /\ last.op \in {"Info", "Error"} =>
          last.recorded =
              IF loggers[last.l].metric # NoMetric
              THEN << [metric |-> loggers[last.l].metric,
                       ctx |-> loggers[last.l].ctx, n |-> 1] >>
              ELSE <<>>
    /\ last.op = "Debug" => last.recorded = <<>>

\* Info on a logger with a hook and a context, at level Error: no line, but
\* the hook ran, the second time for two Info or Error calls and one Debug
\* call on that logger.
C13_Witness ==
    /\ last.op = "Info" /\ last.logged = <<>> /\ Len(last.recorded) = 1
    /\ LoadLevel(last.l) = Error
    /\ loggers[last.l].ctx # Background
    /\ tally[last.l] = [calls |-> 2, debugs |-> 1, hooks |-> 2]

(***************************************************************************)
(* Configuration: the flag value and Validate.  Strings are sequences of   *)
(* characters, split and trimmed as the strings package does.              *)
(***************************************************************************)
stringToLevel ==
    (<<"n", "o", "n", "e">> :> None)
        @@ (<<"e", "r", "r", "o", "r">> :> Error)
        @@ (<<"i", "n", "f", "o">> :> Info)
        @@ (<<"d", "e", "b", "u", "g">> :> Debug)

\* strings.Split(s, sep) for a one-character sep: the substrings between the
\* separators, one more than there are separators.
RECURSIVE Split(_, _)
Split(s, sep) ==
    IF \A i \in 1 .. Len(s) : s[i] # sep THEN <<s>>
    ELSE LET i == CHOOSE k \in 1 .. Len(s) :
                      s[k] = sep /\ \A j \in 1 .. k - 1 : s[j] # sep
         IN <<SubSeq(s, 1, i - 1)>> \o Split(SubSeq(s, i + 1, Len(s)), sep)

\* The values of the log-output-level flag: "debug,db:error", "",
\* "bogus,db:debug", "db:info,x:debug,a:b:c, error", "none,db:debug",
\* "info,api:none", "DB:Debug,:info".
ConfigInputs ==
    { <<"d","e","b","u","g", ",", "d","b", ":", "e","r","r","o","r">>,
      <<>>,
      <<"b","o","g","u","s", ",", "d","b", ":", "d","e","b","u","g">>,
      <<"d","b", ":", "i","n","f","o", ",", "x", ":", "d","e","b","u","g", ",",
        "a", ":", "b", ":", "c", ",", " ", "e","r","r","o","r">>,
      <<"n","o","n","e", ",", "d","b", ":", "d","e","b","u","g">>,
      <<"i","n","f","o", ",", "a","p","i", ":", "n","o","n","e">>,
      <<"D","B", ":", "D","e","b","u","g", ",", ":", "i","n","f","o">> }

\* fs.StringVar(&s.outputLevels, "log-output-level", ...): the flag is parsed.
SetOutputLevels(v) ==
    /\ outputLevels' = v
    /\ last' = Call("FlagSet", 0)
    /\ UNCHANGED <<loggers, cells, registry, tally, threads, mtx>>

\* The errors Validate appends to mErr.
NotALevel == E("is not a valid log level")
NotFound == E("scope not found")
NotAPair == E("is not a valid <scope>:<level> pair")

\* One iteration of Validate's loop, on the level cells and errors st.
ValidateToken(st, ol) ==
    LET osl == Split(ol, ":") IN
    CASE Len(osl) = 1 ->
             IF Trim(ol) \notin DOMAIN stringToLevel
             THEN [st EXCEPT !.errs = Append(@, NotALevel)]
             ELSE [st EXCEPT !.cells =
                      StoreAll(StoreLevel(@, RootId, stringToLevel[Trim(ol)]),
                               Walked, stringToLevel[Trim(ol)])]
      [] Len(osl) = 2 ->
             IF Trim(osl[2]) \notin DOMAIN stringToLevel
             THEN [st EXCEPT !.errs = Append(@, NotALevel)]
             ELSE IF ~Has(Normalize(osl[1]))
             THEN [st EXCEPT !.errs = Append(@, NotFound)]
             ELSE [st EXCEPT !.cells =
                      StoreLevel(@, ScopeTarget(Normalize(osl[1])),
                                 stringToLevel[Trim(osl[2])])]
      [] OTHER -> [st EXCEPT !.errs = Append(@, NotAPair)]

\* ValidateTokens as it would be had it returned at the first error.
RECURSIVE ValidateFailFast(_, _, _)
ValidateFailFast(st, outputLevelsList, i) ==
    IF i > Len(outputLevelsList) \/ st.errs # <<>> THEN st
    ELSE ValidateFailFast(ValidateToken(st, outputLevelsList[i]),
                          outputLevelsList, i + 1)

\* for _, ol := range outputLevels { ... }, from the i-th token on.
RECURSIVE ValidateTokens(_, _, _)
ValidateTokens(st, outputLevelsList, i) ==
    IF i > Len(outputLevelsList) THEN st
    ELSE ValidateTokens(ValidateToken(st, outputLevelsList[i]),
                        outputLevelsList, i + 1)

Validate ==
    LET lowered == ToLower(outputLevels)
        outputLevelsList == Split(lowered, ",")
        st == IF Len(outputLevelsList) = 0
              THEN [cells |-> cells, errs |-> <<>>]
              ELSE ValidateTokens([cells |-> cells, errs |-> <<>>],
                                  outputLevelsList, 1)
    IN /\ outputLevels' = lowered
       /\ cells' = st.cells
       /\ last' = [Call("Validate", 0) EXCEPT
                      !.errs = st.errs, !.ok = (st.errs = <<>>)]
       /\ UNCHANGED <<loggers, registry, tally, threads, mtx>>

NextConfig ==
    \/ \E v \in ConfigInputs : SetOutputLevels(v)
    \/ Validate
    \/ \E n \in NameInputs, d \in Descriptions : Alone(Register(n, d))

SpecConfig == Init /\ [][NextConfig]_vars

\* The places where the tokens of the configuration string s begin and end:
\* before its first character, at its commas, after its last character.
Cuts(s) == {0} \cup { i \in 1 .. Len(s) : s[i] = "," } \cup {Len(s) + 1}

NthCut(s, k) ==
    CHOOSE x \in Cuts(s) : Cardinality({ y \in Cuts(s) : y < x }) = k - 1

\* The comma-separated tokens of s.
Tokens(s) ==
    [k \in 1 .. Cardinality(Cuts(s)) - 1 |->
        SubSeq(s, NthCut(s, k) + 1, NthCut(s, k + 1) - 1)]

\* The colons of a token, its level name and its scope name.
Colons(tok) == { i \in 1 .. Len(tok) : tok[i] = ":" }

LevelPart(tok) ==
    IF Colons(tok) = {} THEN Trim(tok)
    ELSE Trim(SubSeq(tok, (CHOOSE i \in Colons(tok) : TRUE) + 1, Len(tok)))

ScopePart(tok) ==
    Normalize(SubSeq(tok, 1, (CHOOSE i \in Colons(tok) : TRUE) - 1))

\* A bad token: more than one colon, an unrecognized level name, or the
\* name of no registered scope.
BadToken(tok) ==
    \/ Cardinality(Colons(tok)) > 1
    \/ LevelPart(tok) \notin DOMAIN stringToLevel
    \/ Cardinality(Colons(tok)) = 1 /\ ~Has(ScopePart(tok))

\* The good token tok is for logger l: a bare level is for the root and
\* every registered scope, scope:level for that scope.
Addresses(tok, l) ==
    /\ ~BadToken(tok)
    /\ IF Colons(tok) = {} THEN l = RootId \/ l \in ScopeLoggers
       ELSE l = Lookup(ScopePart(tok)).logger

\* The greatest element of a non-empty set of numbers.
Latest(ks) == CHOOSE k \in ks : \A j \in ks : j <= k

\* C14: Validate processes every token of the configuration string: it
\* returns one error per bad token (unrecognized level, unknown scope, more
\* than one colon) and no error exactly when no token is bad; every logger
\* ends at what SetLevel stores for the level of the last good token that is
\* for it, wherever the bad tokens stand, and a logger no good token is for
\* keeps its level.
C14_ValidateNeverFailsFast ==
    [][ last'.op = "Validate" =>
          LET toks == Tokens(ToLower(outputLevels))
              bad == { k \in DOMAIN toks : BadToken(toks[k]) }
          IN /\ Len(last'.errs) = Cardinality(bad)
             /\ last'.ok <=> bad = {}
             /\ \A l \in LoggerIds :
                   LET for == { k \in DOMAIN toks : Addresses(toks[k], l) }
                   IN LoadLevelAfter(l) =
                          IF for = {} THEN LoadLevel(l)
                          ELSE Nearest(stringToLevel[
                                           LevelPart(toks[Latest(for)])])
      ]_vars

\* Validate of "db:info,x:debug,a:b:c, error" with db registered returned
\* the errors of x:debug and a:b:c, and the root and db stand at Error.
C14_Witness ==
    /\ last.op = "Validate"
    /\ last.errs = <<NotFound, NotAPair>>
    /\ Len(Tokens(outputLevels)) = 4
    /\ Has(<<"d", "b">>)
    /\ LoadLevel(RootId) = Error
    /\ LoadLevel(Lookup(<<"d", "b">>).logger) = Error

\* A configuration string of the form default_level,scope1:level1,...: a
\* bare level first, then tokens naming distinct registered scopes.
DefaultThenScopes(toks) ==
    /\ \A k \in DOMAIN toks : ~BadToken(toks[k])
    /\ \A k \in DOMAIN toks : Colons(toks[k]) = {} <=> k = 1
    /\ \A j, k \in DOMAIN toks \ {1} :
          ScopePart(toks[j]) = ScopePart(toks[k]) => j = k

\* C15: after Validate of default_level,scope1:level1,... the default level
\* is default_level, each named scope has the level of its token, and every
\* other registered scope has default_level.
C15_ConfigApplied ==
    [][ ( /\ last'.op = "Validate"
          /\ DefaultThenScopes(Tokens(ToLower(outputLevels))) ) =>
          LET toks == Tokens(ToLower(outputLevels))
              default == stringToLevel[LevelPart(toks[1])]
          IN /\ LoadLevelAfter(RootId) = default
             /\ \A sc \in registry :
                   LoadLevelAfter(sc.logger) =
                       IF \E k \in DOMAIN toks \ {1} :
                              ScopePart(toks[k]) = sc.name
                       THEN stringToLevel[LevelPart(toks[
                                CHOOSE k \in DOMAIN toks \ {1} :
                                    ScopePart(toks[k]) = sc.name])]
                       ELSE default
      ]_vars

\* C19: Validate of the empty configuration string returns no error and
\* changes no level.
C19_EmptyConfigIsNoOp ==
    [][ (last'.op = "Validate" /\ outputLevels = <<>>) =>
            /\ last'.ok
            /\ last'.errs = <<>>
            /\ cells' = cells
      ]_vars

(***************************************************************************)
(* Concurrent callers of the manager.  A call is a sequence of steps, one   *)
(* per access to shared state: taking the mutex, the map accesses, the      *)
(* atomic loads and stores of level cells.  A step of one goroutine may     *)
(* come between any two steps of another, except where the mutex orders     *)
(* them.  Map accesses made without the mutex race with the writes of       *)
(* Register and Deregister: a racing iteration may produce or skip an       *)
(* entry inserted meanwhile, and the runtime may stop the program with      *)
(* "concurrent map iteration and map write".                                *)
(***************************************************************************)
MaxOps == 2

\* The manager operations that take the mutex first, those that start with
\* a store to the root's cell, and those that start by ranging over the map.
LockingOps ==
    {"Register", "Deregister", "SetScopeOutputLevel", "GetOutputLevel"}
RangingOps == {"FlagSet", "PrintRegisteredScopes"}

FirstPc(op) ==
    IF op \in LockingOps THEN "lock"
    ELSE IF op = "SetDefaultOutputLevel" THEN "root"
    ELSE "range"

\* The Register calls that have not yet allocated their Logger.
Registering ==
    { u \in Threads : threads[u].op = "Register" /\ threads[u].pc # "idle" }

\* Goroutine t returns from its call.
Return(t, ret, ok) ==
    [threads[t] EXCEPT
        !.pc = "idle", !.ret = ret, !.ok = ok, !.calls = @ + 1]

\* Goroutine t calls op.
Enter(t, op, rawName, description, lvl) ==
    /\ threads[t].pc = "idle"
    /\ threads[t].calls < MaxOps
    /\ op = "Register" =>
          Len(loggers) + Cardinality(Registering) < MaxLoggers
    /\ threads' = [threads EXCEPT ![t] =
           [Idle EXCEPT !.pc = FirstPc(op), !.op = op, !.name = rawName,
                        !.desc = description, !.lvl = lvl,
                        !.calls = threads[t].calls]]
    /\ UNCHANGED <<loggers, cells, registry, last, outputLevels, tally, mtx>>

\* s.mtx.Lock()
Lock(t) ==
    /\ threads[t].pc = "lock"
    /\ mtx = Unlocked
    /\ mtx' = t
    /\ threads' = [threads EXCEPT ![t].pc = "lookup"]
    /\ UNCHANGED <<loggers, cells, registry, last, outputLevels, tally>>

\* Register: scoped, ok := s.registry[name]; return, or load the root level.
RegisterLookup(t) ==
    LET name == Normalize(threads[t].name) IN
    /\ threads[t].pc = "lookup" /\ threads[t].op = "Register"
    /\ IF Has(name)
       THEN /\ threads' = [threads EXCEPT
                              ![t] = Return(t, Lookup(name).logger, TRUE)]
            /\ mtx' = Unlocked
       ELSE /\ threads' = [threads EXCEPT
                              ![t].pc = "insert", ![t].seed = RegisterSeed]
            /\ mtx' = mtx
    /\ UNCHANGED <<loggers, cells, registry, last, outputLevels, tally>>

\* Register: s.registry[name] = scoped, with the level loaded before.
RegisterInsert(t) ==
    LET name == Normalize(threads[t].name) IN
    /\ threads[t].pc = "insert"
    /\ cells' = Append(cells, threads[t].seed)
    /\ loggers' = Append(loggers,
           [ctx |-> Background, args |-> <<>>, metric |-> NoMetric,
            lvl |-> Len(cells) + 1, logger |-> loggers[RootId].logger,
            by |-> Built("Register", 0, name)])
    /\ registry' = registry \cup {NewScoped(name, threads[t].desc)}
    /\ threads' = [threads EXCEPT ![t] =
           [Return(t, Len(loggers) + 1, TRUE) EXCEPT !.sc = Len(loggers) + 1]]
    /\ mtx' = Unlocked
    /\ UNCHANGED <<last, outputLevels, tally>>

\* Deregister: _, has := s.registry[name]
DeregisterLookup(t) ==
    /\ threads[t].pc = "lookup" /\ threads[t].op = "Deregister"
    /\ IF ~Has(Normalize(threads[t].name))
       THEN /\ threads' = [threads EXCEPT ![t] = Return(t, 0, FALSE)]
            /\ mtx' = Unlocked
       ELSE /\ threads' = [threads EXCEPT ![t].pc = "delete"]
            /\ mtx' = mtx
    /\ UNCHANGED <<loggers, cells, registry, last, outputLevels, tally>>

\* Deregister: delete(s.registry, name)
DeregisterDelete(t) ==
    /\ threads[t].pc = "delete"
    /\ registry' = Delete(Normalize(threads[t].name))
    /\ threads' = [threads EXCEPT ![t] = Return(t, 0, TRUE)]
    /\ mtx' = Unlocked
    /\ UNCHANGED <<loggers, cells, last, outputLevels, tally>>

\* SetScopeOutputLevel, GetOutputLevel: sc, has := s.registry[name];
\* s.mtx.Unlock()
ScopeLookup(t) ==
    LET name == Normalize(threads[t].name) IN
    /\ threads[t].pc = "lookup"
    /\ threads[t].op \in {"SetScopeOutputLevel", "GetOutputLevel"}
    /\ threads' = [threads EXCEPT ![t] =
           IF Has(name)
           THEN [threads[t] EXCEPT !.pc = "level", !.sc = ScopeTarget(name)]
           ELSE Return(t, None, FALSE)]
    /\ mtx' = Unlocked
    /\ UNCHANGED <<loggers, cells, registry, last, outputLevels, tally>>

\* SetScopeOutputLevel: sc.logger.SetLevel(lvl)
ScopeStore(t) ==
    /\ threads[t].pc = "level" /\ threads[t].op = "SetScopeOutputLevel"
    /\ cells' = [cells EXCEPT
                    ![loggers[threads[t].sc].lvl] = Clamp(threads[t].lvl)]
    /\ threads' = [threads EXCEPT ![t] = Return(t, 0, TRUE)]
    /\ UNCHANGED <<loggers, registry, last, outputLevels, tally, mtx>>

\* GetOutputLevel: atomic.LoadInt32(sc.logger.lvl)
ScopeLoad(t) ==
    /\ threads[t].pc = "level" /\ threads[t].op = "GetOutputLevel"
    /\ threads' = [threads EXCEPT
                      ![t] = Return(t, LoadLevel(threads[t].sc), TRUE)]
    /\ UNCHANGED <<loggers, cells, registry, last, outputLevels, tally, mtx>>

\* SetDefaultOutputLevel: s.logger.SetLevel(lvl)
DefaultRoot(t) ==
    /\ threads[t].pc = "root"
    /\ cells' = StoreLevel(cells, RootId, threads[t].lvl)
    /\ threads' = [threads EXCEPT ![t].pc = "range"]
    /\ UNCHANGED <<loggers, registry, last, outputLevels, tally, mtx>>

\* for ... := range s.registry, begun without the mutex: the entries present
\* now are all to be produced unless deleted first.
RangeBegin(t) ==
    /\ threads[t].pc = "range"
    /\ threads' = [threads EXCEPT ![t].pc = "walk", ![t].todo = registry]
    /\ UNCHANGED <<loggers, cells, registry, last, outputLevels, tally, mtx>>

\* The range produces an entry not produced yet; SetDefaultOutputLevel sets
\* its level.
RangeNext(t) ==
    /\ threads[t].pc = "walk"
    /\ \E sg \in registry \ threads[t].seen :
          /\ threads' = [threads EXCEPT ![t].seen = @ \cup {sg}]
          /\ cells' = IF threads[t].op = "SetDefaultOutputLevel"
                      THEN StoreLevel(cells, sg.logger, threads[t].lvl)
                      ELSE cells
    /\ UNCHANGED <<loggers, registry, last, outputLevels, tally, mtx>>

\* The range ends: every entry present from its beginning on was produced;
\* entries inserted meanwhile may have been skipped.
RangeEnd(t) ==
    /\ threads[t].pc = "walk"
    /\ (threads[t].todo \cap registry) \subseteq threads[t].seen
    /\ threads' = [threads EXCEPT ![t] =
           IF threads[t].op = "PrintRegisteredScopes"
           THEN [threads[t] EXCEPT !.pc = "print", !.todo = threads[t].seen]
           ELSE Return(t, 0, TRUE)]
    /\ UNCHANGED <<loggers, cells, registry, last, outputLevels, tally, mtx>>

\* The program has stopped: a runtime fatal error or an unrecovered panic.
Crashed == [t \in Threads |-> [threads[t] EXCEPT !.pc = "crashed"]]

\* PrintRegisteredScopes: sc := s.registry[n]; sc.name, for the next of the
\* names collected; sc is nil when the entry has been deleted since.
PrintEntry(t) ==
    /\ threads[t].pc = "print"
    /\ IF threads[t].todo = {}
       THEN threads' = [threads EXCEPT ![t] = Return(t, 0, TRUE)]
       ELSE \E sg \in threads[t].todo :
               threads' = IF Has(sg.name)
                          THEN [threads EXCEPT ![t].todo = @ \ {sg}]
                          ELSE Crashed
    /\ UNCHANGED <<loggers, cells, registry, last, outputLevels, tally, mtx>>

\* The runtime finds the map being written while goroutine t ranges over it.
RaceDetected(t) ==
    /\ threads[t].pc = "walk"
    /\ \E u \in Threads \ {t} : threads[u].pc \in {"insert", "delete"}
    /\ threads' = Crashed
    /\ UNCHANGED <<loggers, cells, registry, last, outputLevels, tally, mtx>>

NextConc ==
    \/ \E t \in Threads, n \in NameInputs, d \in Descriptions :
          Enter(t, "Register", n, d, 0)
    \/ \E t \in Threads, n \in NameInputs : Enter(t, "Deregister", n, "", 0)
    \/ \E t \in Threads, lvl \in Levels :
          Enter(t, "SetDefaultOutputLevel", <<>>, "", lvl)
    \/ \E t \in Threads, n \in NameInputs, lvl \in Levels :
          Enter(t, "SetScopeOutputLevel", n, "", lvl)
    \/ \E t \in Threads, n \in NameInputs : Enter(t, "GetOutputLevel", n, "", 0)
    \/ \E t \in Threads, op \in RangingOps : Enter(t, op, <<>>, "", 0)
    \/ \E t \in Threads : Lock(t)
    \/ \E t \in Threads : RegisterLookup(t)
    \/ \E t \in Threads : RegisterInsert(t)
    \/ \E t \in Threads : DeregisterLookup(t)
    \/ \E t \in Threads : DeregisterDelete(t)
    \/ \E t \in Threads : ScopeLookup(t)
    \/ \E t \in Threads : ScopeStore(t)
    \/ \E t \in Threads : ScopeLoad(t)
    \/ \E t \in Threads : DefaultRoot(t)
    \/ \E t \in Threads : RangeBegin(t)
    \/ \E t \in Threads : RangeNext(t)
    \/ \E t \in Threads : RangeEnd(t)
    \/ \E t \in Threads : PrintEntry(t)
    \/ \E t \in Threads : RaceDetected(t)

SpecConc == Init /\ [][NextConc]_vars

\* The positions at which a goroutine's next step reads the map, and those
\* at which it inserts into or deletes from it.
MapReadPcs == {"lookup", "range", "walk", "print"}
MapWritePcs == {"insert", "delete"}

\* C12: a goroutine about to read, iterate or write the name->scope mapping
\* holds the registry mutex, so no goroutine reads or iterates the mapping
\* while another is about to insert into or delete from it.
C12_LockDiscipline ==
    /\ \A t \in Threads :
          threads[t].pc \in MapReadPcs \cup MapWritePcs => mtx = t
    /\ \A t, u \in Threads :
          ~(threads[t].pc \in MapReadPcs /\ threads[u].pc \in MapWritePcs)

\* C20: when a Register that created a scope and a SetDefaultOutputLevel(L)
\* of another goroutine have both returned and nothing else was called, the
\* scope and the root both stand at what SetLevel stores for L.
C20_RegisterBroadcastAtomic ==
    \A t, u \in Threads :
        ( /\ threads[t].pc = "idle" /\ threads[t].calls = 1
          /\ threads[u].pc = "idle" /\ threads[u].calls = 1
          /\ threads[t].op = "Register" /\ threads[t].sc # 0
          /\ threads[u].op = "SetDefaultOutputLevel" ) =>
            /\ LoadLevel(RootId) = Nearest(threads[u].lvl)
            /\ LoadLevel(threads[t].ret) = LoadLevel(RootId)

\* C21: when a SetScopeOutputLevel(n, L) returns without error and n is
\* registered at that moment, the entry registered under n stands at what
\* SetLevel stores for L: the write went to that entry, not to the Logger of
\* an entry deleted and registered again since the lookup.
C21_ScopeLevelHitsRegisteredEntry ==
    [][ \A t \in Threads :
          ( /\ threads[t].pc = "level"
            /\ threads[t].op = "SetScopeOutputLevel"
            /\ threads'[t].pc = "idle" /\ threads'[t].ok
            /\ Has(Normalize(threads[t].name)) ) =>
              LoadLevelAfter(Lookup(Normalize(threads[t].name)).logger) =
                  Nearest(threads[t].lvl)
      ]_vars

============================================================================
